---- MODULE Spec2Model ----
(***************************************************************************)
(* Model of deploy/deploy.ts: the zkSync deploy script for the Greeter     *)
(* contract, together with the Greeter contract it deploys and the         *)
(* network the script talks to.                                            *)
(*                                                                         *)
(* The script is one async function.  Each action of the script is one     *)
(* synchronous segment of it: from the resumption after an await up to the *)
(* next awaited call.  The network side settles the promise of each call   *)
(* (fulfilled or rejected) and processes the submitted transactions.       *)
(***************************************************************************)
EXTENDS Integers, Sequences, FiniteSets

VARIABLES
    pc,          \* the await the script is suspended at, or start/done/failed
    locals,      \* the script's local constants that come from awaited calls
    console,     \* what was written, in order: <<stream, text>>
    calls,       \* call sites (source lines) of the external calls, in issue order
    promises,    \* per call site: state, arguments and settled value
    failedAt,    \* call site whose rejection ended the run, 0 if none
    exitCode,    \* -1 while running, 0 normal completion, 1 unhandled rejection
    compiled,    \* whether the Greeter artifact was compiled before the run
    l1Balance,   \* the wallet's balance on Goerli, in gwei
    l2Balance,   \* the wallet's balance on zkSync, in gwei
    depositTx,   \* the bridge transfer: state, recipient, amount
    deployTx,    \* the deployment transaction: state, constructor argument
    contract,    \* the Greeter instance on zkSync: deployed, greeting
    setTx,       \* the setGreeting transaction: state, argument
    otherCalls   \* setGreeting calls made by accounts other than the wallet

scriptVars == <<pc, locals, console, calls, failedAt, exitCode>>
netVars == <<compiled, l1Balance, l2Balance, depositTx, deployTx, contract, setTx, otherCalls>>
vars == <<pc, locals, console, calls, promises, failedAt, exitCode,
          compiled, l1Balance, l2Balance, depositTx, deployTx, contract, setTx, otherCalls>>

----------------------------------------------------------------------------
(* Bounds of the model *)

\* the wallet starts with 0..MaxL1Deposits times the deposit amount on Goerli
MaxL1Deposits == 2
\* the wallet starts with 0..MaxL2Deposits times the deposit amount on zkSync
MaxL2Deposits == 1
\* how many times another account calls the public setGreeting
MaxOtherCalls == 1

----------------------------------------------------------------------------
(* Literals of the script *)

NoValue == "undefined"

PRIVATE_KEY == "PRIVATE_KEY"
ContractName == "Greeter"
greeting == "I'm a simple smart contract!"
newGreeting == "I was deployed on zkSync using HardHat!"
ETH_ADDRESS == "0x0000000000000000000000000000000000000000"
\* what another account may store through the public setter
otherGreeting == "Somebody else was here"

\* new Wallet(key).address: the account the key controls
WalletAddress(key) == "address-of-" \o key
\* the address the network gives the deployed contract
GreeterAddress == "0xGreeter"

\* ethers.utils.parseEther of the decimal string int.frac, frac being the
\* sequence of decimal digits after the point.  The result is in gwei
\* (1 ether = 10^9 gwei = 10^18 wei), the digits below one gwei being zero
\* for the literal of the script.
GweiPerEther == 1000000000
RECURSIVE FracGwei(_, _)
FracGwei(frac, unit) ==
    IF frac = <<>> \/ unit = 0 THEN 0
    ELSE Head(frac) * (unit \div 10) + FracGwei(Tail(frac), unit \div 10)
parseEther(int, frac) == int * GweiPerEther + FracGwei(frac, GweiPerEther)

depositAmount == parseEther(0, <<0, 0, 1>>)

\* call sites of the awaited calls, by source line
SiteLoadArtifact == 15
SiteDeposit == 20
SiteDepositWait == 27
SiteDeploy == 33
SiteGreet == 40
SiteSetGreeting == 53
SiteSetGreetingWait == 54
SiteSecondGreet == 57
Sites == {SiteLoadArtifact, SiteDeposit, SiteDepositWait, SiteDeploy, SiteGreet,
          SiteSetGreeting, SiteSetGreetingWait, SiteSecondGreet}

----------------------------------------------------------------------------
(* console *)

Log(text) == <<"log", text>>
Error(text) == <<"error", text>>

LineRunning == Log("Running deploy script for this contract on zkSync!")
LineBridging == Log("Bridging funds from Goerli to zkSync...")
LineBridgeComplete == Log("Bridge complete, deploying contract...")
LineDeployed(name, address) == Log(name \o " was deployed to " \o address \o " on zkSync!")
LineSays(g) == Log("The contract says: " \o g \o "!")
LineSetting == Log("Setting a new variable...")
LineUnexpected(g) == Error("Contract said something unexpected: " \o g)

\* the if/else after each greet(): the value read against the expected literal
Compare(fromContract, expected) ==
    IF fromContract = expected THEN LineSays(expected) ELSE LineUnexpected(fromContract)

----------------------------------------------------------------------------
(* promises *)

NoPromise == [state |-> "none", args |-> <<>>, value |-> NoValue]
Outstanding == {s \in Sites : promises[s].state = "pending"}

\* the script calls f(args) at `site`; the call is now outstanding
Issue(site, args) ==
    /\ promises' = [promises EXCEPT ![site] = [state |-> "pending", args |-> args, value |-> NoValue]]
    /\ calls' = Append(calls, site)

Fulfil(site, value) ==
    promises' = [promises EXCEPT ![site].state = "fulfilled", ![site].value = value]
Reject(site) ==
    promises' = [promises EXCEPT ![site].state = "rejected"]

\* faulty variant: the continuation runs once the promise is settled either way
MayResumeSettled(at, site) == pc = at /\ promises[site].state \in {"fulfilled", "rejected"}

\* the code after an await runs when the awaited promise is fulfilled
MayResume(at, site) == pc = at /\ promises[site].state = "fulfilled"

----------------------------------------------------------------------------
Init ==
    /\ pc = "start"
    /\ locals = [artifact |-> NoValue, depositHandle |-> NoValue,
                 greeterContract |-> NoValue, greetingFromContract |-> NoValue,
                 setNewGreetingHandle |-> NoValue, newGreetingFromContract |-> NoValue]
    /\ console = <<>>
    /\ calls = <<>>
    /\ promises = [s \in Sites |-> NoPromise]
    /\ failedAt = 0
    /\ exitCode = -1
    /\ compiled \in BOOLEAN
    /\ l1Balance \in {k * depositAmount : k \in 0..MaxL1Deposits}
    /\ l2Balance \in {k * depositAmount : k \in 0..MaxL2Deposits}
    /\ depositTx = [state |-> "none", to |-> NoValue, amount |-> 0]
    /\ deployTx = [state |-> "none", arg |-> NoValue]
    /\ contract = [deployed |-> FALSE, greeting |-> NoValue]
    /\ setTx = [state |-> "none", arg |-> NoValue]
    /\ otherCalls = 0

----------------------------------------------------------------------------
(* The script, deploy.ts lines 7-63 *)

\* lines 8-15: log, wallet, deployer, loadArtifact("Greeter")
Begin ==
    /\ pc = "start"
    /\ console' = Append(console, LineRunning)
    /\ Issue(SiteLoadArtifact, <<ContractName>>)
    /\ pc' = "loadArtifact"
    /\ UNCHANGED <<locals, failedAt, exitCode>>
    /\ UNCHANGED netVars

\* lines 15-24: artifact, log, deposit({to, token, amount})
AfterLoadArtifact ==
    /\ MayResume("loadArtifact", SiteLoadArtifact)
    /\ locals' = [locals EXCEPT !.artifact = promises[SiteLoadArtifact].value]
    /\ console' = Append(console, LineBridging)
    /\ Issue(SiteDeposit, <<WalletAddress(PRIVATE_KEY), ETH_ADDRESS, depositAmount>>)
    /\ pc' = "deposit"
    /\ UNCHANGED <<failedAt, exitCode>>
    /\ UNCHANGED netVars

\* faulty variant: "Bridge complete" is logged when deposit() returns
AfterDepositLogsEarly ==
    /\ MayResume("deposit", SiteDeposit)
    /\ locals' = [locals EXCEPT !.depositHandle = promises[SiteDeposit].value]
    /\ console' = Append(console, LineBridgeComplete)
    /\ Issue(SiteDepositWait, <<>>)
    /\ pc' = "depositWait"
    /\ UNCHANGED <<failedAt, exitCode>>
    /\ UNCHANGED netVars

\* faulty variant: the deposit is not waited for; deploy follows deposit() at once
AfterDepositNoWait ==
    /\ MayResume("deposit", SiteDeposit)
    /\ locals' = [locals EXCEPT !.depositHandle = promises[SiteDeposit].value]
    /\ console' = Append(console, LineBridgeComplete)
    /\ Issue(SiteDeploy, <<locals.artifact, greeting>>)
    /\ pc' = "deploy"
    /\ UNCHANGED <<failedAt, exitCode>>
    /\ UNCHANGED netVars

\* lines 20-27: depositHandle, depositHandle.wait()
AfterDeposit ==
    /\ MayResume("deposit", SiteDeposit)
    /\ locals' = [locals EXCEPT !.depositHandle = promises[SiteDeposit].value]
    /\ Issue(SiteDepositWait, <<>>)
    /\ pc' = "depositWait"
    /\ UNCHANGED <<console, failedAt, exitCode>>
    /\ UNCHANGED netVars

\* lines 27-33: log, deployer.deploy(artifact, [greeting])
AfterDepositWait ==
    /\ MayResume("depositWait", SiteDepositWait)
    /\ console' = Append(console, LineBridgeComplete)
    /\ Issue(SiteDeploy, <<locals.artifact, greeting>>)
    /\ pc' = "deploy"
    /\ UNCHANGED <<locals, failedAt, exitCode>>
    /\ UNCHANGED netVars

\* faulty variant: a rejected deploy is caught and the script goes on
AfterDeployCaught ==
    /\ pc = "deploy"
    /\ promises[SiteDeploy].state \in {"fulfilled", "rejected"}
    /\ locals' = [locals EXCEPT !.greeterContract = promises[SiteDeploy].value]
    /\ console' = Append(console, LineDeployed(locals.artifact, promises[SiteDeploy].value))
    /\ Issue(SiteGreet, <<>>)
    /\ pc' = "greet"
    /\ UNCHANGED <<failedAt, exitCode>>
    /\ UNCHANGED netVars

\* faulty variant: greet() is not awaited; setGreeting is sent while it is outstanding
AfterDeployNoAwait ==
    /\ MayResume("deploy", SiteDeploy)
    /\ locals' = [locals EXCEPT !.greeterContract = promises[SiteDeploy].value]
    /\ console' = console \o <<LineDeployed(locals.artifact, promises[SiteDeploy].value),
                                LineSetting>>
    /\ promises' = [promises EXCEPT
                       ![SiteGreet] = [state |-> "pending", args |-> <<>>, value |-> NoValue],
                       ![SiteSetGreeting] = [state |-> "pending", args |-> <<newGreeting>>,
                                             value |-> NoValue]]
    /\ calls' = calls \o <<SiteGreet, SiteSetGreeting>>
    /\ pc' = "setGreeting"
    /\ UNCHANGED <<failedAt, exitCode>>
    /\ UNCHANGED netVars

\* lines 33-40: greeterContract, contractAddress, log, greet()
AfterDeploy ==
    /\ MayResume("deploy", SiteDeploy)
    /\ locals' = [locals EXCEPT !.greeterContract = promises[SiteDeploy].value]
    /\ console' = Append(console, LineDeployed(locals.artifact, promises[SiteDeploy].value))
    /\ Issue(SiteGreet, <<>>)
    /\ pc' = "greet"
    /\ UNCHANGED <<failedAt, exitCode>>
    /\ UNCHANGED netVars

\* faulty variant: an unexpected greeting is thrown instead of logged
AfterGreetThrows ==
    /\ MayResume("greet", SiteGreet)
    /\ locals' = [locals EXCEPT !.greetingFromContract = promises[SiteGreet].value]
    /\ IF promises[SiteGreet].value = greeting
       THEN /\ console' = console \o <<LineSays(greeting), LineSetting>>
            /\ Issue(SiteSetGreeting, <<newGreeting>>)
            /\ pc' = "setGreeting"
            /\ UNCHANGED <<failedAt, exitCode>>
       ELSE /\ pc' = "failed"
            /\ exitCode' = 1
            /\ UNCHANGED <<console, calls, promises, failedAt>>
    /\ UNCHANGED netVars

\* lines 40-53: greetingFromContract, comparison, log, setGreeting(newGreeting)
AfterGreet ==
    /\ MayResume("greet", SiteGreet)
    /\ locals' = [locals EXCEPT !.greetingFromContract = promises[SiteGreet].value]
    /\ console' = console \o <<Compare(promises[SiteGreet].value, greeting), LineSetting>>
    /\ Issue(SiteSetGreeting, <<newGreeting>>)
    /\ pc' = "setGreeting"
    /\ UNCHANGED <<failedAt, exitCode>>
    /\ UNCHANGED netVars

\* faulty variant: the transaction is not waited for; the second greet() follows at once
AfterSetGreetingNoWait ==
    /\ MayResume("setGreeting", SiteSetGreeting)
    /\ locals' = [locals EXCEPT !.setNewGreetingHandle = promises[SiteSetGreeting].value]
    /\ Issue(SiteSecondGreet, <<>>)
    /\ pc' = "secondGreet"
    /\ UNCHANGED <<console, failedAt, exitCode>>
    /\ UNCHANGED netVars

\* lines 53-54: setNewGreetingHandle, setNewGreetingHandle.wait()
AfterSetGreeting ==
    /\ MayResume("setGreeting", SiteSetGreeting)
    /\ locals' = [locals EXCEPT !.setNewGreetingHandle = promises[SiteSetGreeting].value]
    /\ Issue(SiteSetGreetingWait, <<>>)
    /\ pc' = "setGreetingWait"
    /\ UNCHANGED <<console, failedAt, exitCode>>
    /\ UNCHANGED netVars

\* lines 54-57: the second greet()
AfterSetGreetingWait ==
    /\ MayResume("setGreetingWait", SiteSetGreetingWait)
    /\ Issue(SiteSecondGreet, <<>>)
    /\ pc' = "secondGreet"
    /\ UNCHANGED <<locals, console, failedAt, exitCode>>
    /\ UNCHANGED netVars

\* faulty variant: an unexpected greeting at the end fails the run
AfterSecondGreetThrows ==
    /\ MayResume("secondGreet", SiteSecondGreet)
    /\ locals' = [locals EXCEPT !.newGreetingFromContract = promises[SiteSecondGreet].value]
    /\ console' = Append(console, Compare(promises[SiteSecondGreet].value, newGreeting))
    /\ pc' = IF promises[SiteSecondGreet].value = newGreeting THEN "done" ELSE "failed"
    /\ exitCode' = IF promises[SiteSecondGreet].value = newGreeting THEN 0 ELSE 1
    /\ UNCHANGED <<calls, promises, failedAt>>
    /\ UNCHANGED netVars

\* lines 57-63: newGreetingFromContract, comparison, return
AfterSecondGreet ==
    /\ MayResume("secondGreet", SiteSecondGreet)
    /\ locals' = [locals EXCEPT !.newGreetingFromContract = promises[SiteSecondGreet].value]
    /\ console' = Append(console, Compare(promises[SiteSecondGreet].value, newGreeting))
    /\ pc' = "done"
    /\ exitCode' = 0
    /\ UNCHANGED <<calls, promises, failedAt>>
    /\ UNCHANGED netVars

\* the call site the script is suspended at
AwaitedSite ==
    CASE pc = "loadArtifact" -> SiteLoadArtifact
      [] pc = "deposit" -> SiteDeposit
      [] pc = "depositWait" -> SiteDepositWait
      [] pc = "deploy" -> SiteDeploy
      [] pc = "greet" -> SiteGreet
      [] pc = "setGreeting" -> SiteSetGreeting
      [] pc = "setGreetingWait" -> SiteSetGreetingWait
      [] pc = "secondGreet" -> SiteSecondGreet
      [] OTHER -> 0

\* faulty variant: on a rejection the script puts the old greeting back before it ends
UnhandledRejectionCompensates ==
    /\ AwaitedSite \in Sites
    /\ promises[AwaitedSite].state = "rejected"
    /\ pc' = "failed"
    /\ failedAt' = AwaitedSite
    /\ exitCode' = 1
    /\ IF AwaitedSite = SiteSetGreetingWait
       THEN Issue(SiteSetGreeting, <<greeting>>)
       ELSE UNCHANGED <<calls, promises>>
    /\ UNCHANGED <<locals, console>>
    /\ UNCHANGED netVars

\* no await of the function is inside a try: a rejected promise ends the run
UnhandledRejection ==
    /\ AwaitedSite \in Sites
    /\ promises[AwaitedSite].state = "rejected"
    /\ pc' = "failed"
    /\ failedAt' = AwaitedSite
    /\ exitCode' = 1
    /\ UNCHANGED <<locals, console, calls, promises>>
    /\ UNCHANGED netVars

----------------------------------------------------------------------------
(* The network side: the deployer plugin, the wallet's providers, the      *)
(* bridge and the Greeter contract.  Each call of the script is settled    *)
(* once, fulfilled or rejected; a rejection has no effect on the chains.   *)

IsPending(site) == promises[site].state = "pending"

\* deployer.loadArtifact(name): the artifact of a contract compiled before
LoadArtifactSettle ==
    /\ IsPending(SiteLoadArtifact)
    /\ IF compiled /\ promises[SiteLoadArtifact].args[1] = ContractName
       THEN Fulfil(SiteLoadArtifact, ContractName)
       ELSE Reject(SiteLoadArtifact)
    /\ UNCHANGED scriptVars
    /\ UNCHANGED netVars

\* zkWallet.deposit({to, token, amount}): the L1 transaction is sent, the
\* amount leaves the wallet on Goerli and the handle is returned
DepositAccepted ==
    /\ IsPending(SiteDeposit)
    /\ depositTx.state = "none"
    /\ LET to == promises[SiteDeposit].args[1]
           amount == promises[SiteDeposit].args[3]
       IN /\ l1Balance >= amount
          /\ l1Balance' = l1Balance - amount
          /\ depositTx' = [state |-> "pending", to |-> to, amount |-> amount]
    /\ Fulfil(SiteDeposit, "depositHandle")
    /\ UNCHANGED scriptVars
    /\ UNCHANGED <<compiled, l2Balance, deployTx, contract, setTx, otherCalls>>

\* deposit() rejects: insufficient funds on Goerli, or the provider fails
DepositRejected ==
    /\ IsPending(SiteDeposit)
    /\ Reject(SiteDeposit)
    /\ UNCHANGED scriptVars
    /\ UNCHANGED netVars

\* the bridge processes the deposit on zkSync: the recipient is credited
DepositFinalize ==
    /\ depositTx.state = "pending"
    /\ depositTx' = [depositTx EXCEPT !.state = "finalized"]
    /\ l2Balance' = IF depositTx.to = WalletAddress(PRIVATE_KEY)
                    THEN l2Balance + depositTx.amount ELSE l2Balance
    /\ UNCHANGED scriptVars
    /\ UNCHANGED <<promises, compiled, l1Balance, deployTx, contract, setTx, otherCalls>>

\* depositHandle.wait() returns once the deposit is processed on zkSync
DepositWaitFulfilled ==
    /\ IsPending(SiteDepositWait)
    /\ depositTx.state = "finalized"
    /\ Fulfil(SiteDepositWait, "depositReceipt")
    /\ UNCHANGED scriptVars
    /\ UNCHANGED netVars

\* depositHandle.wait() rejects, whatever the state of the transfer
DepositWaitRejected ==
    /\ IsPending(SiteDepositWait)
    /\ Reject(SiteDepositWait)
    /\ UNCHANGED scriptVars
    /\ UNCHANGED netVars

\* deployer.deploy(artifact, [arg]) sends the deployment transaction, which
\* the wallet must be able to pay for on zkSync
DeploySubmit ==
    /\ IsPending(SiteDeploy)
    /\ deployTx.state = "none"
    /\ promises[SiteDeploy].args[1] = ContractName
    /\ l2Balance > 0
    /\ deployTx' = [state |-> "pending", arg |-> promises[SiteDeploy].args[2]]
    /\ UNCHANGED scriptVars
    /\ UNCHANGED <<promises, compiled, l1Balance, l2Balance, depositTx, contract, setTx, otherCalls>>

\* faulty variant: the constructor leaves the greeting empty
ConstructorDropsArg(_greeting) == [deployed |-> TRUE, greeting |-> ""]

\* Greeter's constructor(_greeting): greeting = _greeting
Constructor(_greeting) == [deployed |-> TRUE, greeting |-> _greeting]

\* the deployment transaction is executed on zkSync
DeployMine ==
    /\ deployTx.state = "pending"
    /\ deployTx' = [deployTx EXCEPT !.state = "mined"]
    /\ contract' = Constructor(deployTx.arg)
    /\ UNCHANGED scriptVars
    /\ UNCHANGED <<promises, compiled, l1Balance, l2Balance, depositTx, setTx, otherCalls>>

\* deploy() returns the contract handle once the contract is deployed
DeployFulfilled ==
    /\ IsPending(SiteDeploy)
    /\ deployTx.state = "mined"
    /\ Fulfil(SiteDeploy, GreeterAddress)
    /\ UNCHANGED scriptVars
    /\ UNCHANGED netVars

\* deploy() rejects, whatever the state of the deployment transaction
DeployRejected ==
    /\ IsPending(SiteDeploy)
    /\ Reject(SiteDeploy)
    /\ UNCHANGED scriptVars
    /\ UNCHANGED netVars

\* Greeter's greet(): return greeting
greet(c) == c.greeting

\* Greeter's setGreeting(_greeting): greeting = _greeting
setGreeting(c, _greeting) == [c EXCEPT !.greeting = _greeting]

\* greeterContract.greet(), a read of the deployed contract
GreetFulfilled ==
    \E site \in {SiteGreet, SiteSecondGreet} :
        /\ IsPending(site)
        /\ contract.deployed
        /\ Fulfil(site, greet(contract))
        /\ UNCHANGED scriptVars
        /\ UNCHANGED netVars

GreetRejected ==
    \E site \in {SiteGreet, SiteSecondGreet} :
        /\ IsPending(site)
        /\ Reject(site)
        /\ UNCHANGED scriptVars
        /\ UNCHANGED netVars

\* greeterContract.setGreeting(arg) sends the transaction and returns its handle
SetGreetingAccepted ==
    /\ IsPending(SiteSetGreeting)
    /\ setTx.state = "none"
    /\ contract.deployed
    /\ l2Balance > 0
    /\ setTx' = [state |-> "pending", arg |-> promises[SiteSetGreeting].args[1]]
    /\ Fulfil(SiteSetGreeting, "setNewGreetingHandle")
    /\ UNCHANGED scriptVars
    /\ UNCHANGED <<compiled, l1Balance, l2Balance, depositTx, deployTx, contract, otherCalls>>

SetGreetingRejected ==
    /\ IsPending(SiteSetGreeting)
    /\ Reject(SiteSetGreeting)
    /\ UNCHANGED scriptVars
    /\ UNCHANGED netVars

\* the setGreeting transaction is executed on zkSync
SetGreetingMine ==
    /\ setTx.state = "pending"
    /\ setTx' = [setTx EXCEPT !.state = "mined"]
    /\ contract' = setGreeting(contract, setTx.arg)
    /\ UNCHANGED scriptVars
    /\ UNCHANGED <<promises, compiled, l1Balance, l2Balance, depositTx, deployTx, otherCalls>>

\* setNewGreetingHandle.wait() returns once the transaction is executed
SetGreetingWaitFulfilled ==
    /\ IsPending(SiteSetGreetingWait)
    /\ setTx.state = "mined"
    /\ Fulfil(SiteSetGreetingWait, "setGreetingReceipt")
    /\ UNCHANGED scriptVars
    /\ UNCHANGED netVars

\* setNewGreetingHandle.wait() rejects, whatever the state of the transaction
SetGreetingWaitRejected ==
    /\ IsPending(SiteSetGreetingWait)
    /\ Reject(SiteSetGreetingWait)
    /\ UNCHANGED scriptVars
    /\ UNCHANGED netVars

\* setGreeting is public: any other account may call it on the deployed contract
OtherSetGreeting ==
    /\ contract.deployed
    /\ otherCalls < MaxOtherCalls
    /\ otherCalls' = otherCalls + 1
    /\ contract' = setGreeting(contract, otherGreeting)
    /\ UNCHANGED scriptVars
    /\ UNCHANGED <<promises, compiled, l1Balance, l2Balance, depositTx, deployTx, setTx>>

----------------------------------------------------------------------------
ScriptStep ==
    \/ Begin
    \/ AfterLoadArtifact
    \/ AfterDeposit
    \/ AfterDepositWait
    \/ AfterDeploy
    \/ AfterGreet
    \/ AfterSetGreeting
    \/ AfterSetGreetingWait
    \/ AfterSecondGreet
    \/ UnhandledRejection

NetworkStep ==
    \/ LoadArtifactSettle
    \/ DepositAccepted
    \/ DepositRejected
    \/ DepositFinalize
    \/ DepositWaitFulfilled
    \/ DepositWaitRejected
    \/ DeploySubmit
    \/ DeployMine
    \/ DeployFulfilled
    \/ DeployRejected
    \/ GreetFulfilled
    \/ GreetRejected
    \/ SetGreetingAccepted
    \/ SetGreetingRejected
    \/ SetGreetingMine
    \/ SetGreetingWaitFulfilled
    \/ SetGreetingWaitRejected

\* the script's wallet is the only account that uses the contract
Next == ScriptStep \/ NetworkStep
Spec == Init /\ [][Next]_vars

\* other accounts use the contract too
NextOpen == Next \/ OtherSetGreeting
SpecOpen == Init /\ [][NextOpen]_vars

----------------------------------------------------------------------------
(* Properties *)

Issued(site) == \E i \in 1..Len(calls) : calls[i] = site
Before(a, b) == \E i, j \in 1..Len(calls) : i < j /\ calls[i] = a /\ calls[j] = b
Returned(site) == promises[site].state = "fulfilled"
Rejected(site) == promises[site].state = "rejected"
Logged(line) == \E i \in 1..Len(console) : console[i] = line
FirstRead == locals.greetingFromContract
SecondRead == locals.newGreetingFromContract
AllCalls == <<SiteLoadArtifact, SiteDeposit, SiteDepositWait, SiteDeploy, SiteGreet,
              SiteSetGreeting, SiteSetGreetingWait, SiteSecondGreet>>
Terminated == pc \in {"done", "failed"}

C3_NoDeployAfterFailedDeposit ==
    (Rejected(SiteDeposit) \/ Rejected(SiteDepositWait)) =>
        /\ ~Issued(SiteDeploy)
        /\ ~Issued(SiteGreet)
        /\ ~Issued(SiteSetGreeting)
        /\ ~Issued(SiteSecondGreet)
        /\ deployTx.state = "none"
        /\ ~contract.deployed

C3_Witness ==
    /\ pc = "failed"
    /\ failedAt = SiteDepositWait
    /\ Rejected(SiteDepositWait)
    /\ depositTx.state = "finalized"

\* C4: if deploy() is rejected, greet and setGreeting are never called in that
\* run and no "was deployed to" line is logged.
C4_NoCallsAfterFailedDeploy ==
    Rejected(SiteDeploy) =>
        /\ ~Issued(SiteGreet)
        /\ ~Issued(SiteSetGreeting)
        /\ ~Issued(SiteSetGreetingWait)
        /\ ~Issued(SiteSecondGreet)
        /\ console = <<LineRunning, LineBridging, LineBridgeComplete>>
        /\ \A a \in {GreeterAddress, NoValue} : ~Logged(LineDeployed(ContractName, a))

C4_Witness ==
    /\ pc = "failed"
    /\ failedAt = SiteDeploy
    /\ Rejected(SiteDeploy)

\* C5: when the first greet() returns something else than the expected
\* literal, the script logs "Contract said something unexpected" and goes on:
\* setGreeting is sent, the second greet and comparison are made, and the run
\* completes normally, as one whose comparisons matched does.
C5_MismatchIsLoggedAndRunGoesOn ==
    (FirstRead # NoValue /\ FirstRead # greeting) =>
        /\ Len(console) >= 6
        /\ console[5] = Error("Contract said something unexpected: " \o FirstRead)
        /\ console[6] = LineSetting
        /\ Issued(SiteSetGreeting)
        /\ pc # "failed" => exitCode # 1
        /\ pc = "failed" => failedAt \in {SiteSetGreeting, SiteSetGreetingWait, SiteSecondGreet}
        /\ pc = "done" =>
              /\ exitCode = 0
              /\ calls = AllCalls
              /\ console[7] = Compare(SecondRead, newGreeting)

C5_Witness ==
    /\ pc = "done"
    /\ FirstRead = otherGreeting
    /\ Logged(LineUnexpected(otherGreeting))
    /\ exitCode = 0

\* C6: a run ends either at the first rejected call, after which the script
\* does nothing more, or, if no call is rejected, normally after the last
\* comparison, whether it matched or not; until then the script can run or
\* has exactly one call outstanding.
C6_State ==
    /\ (pc = "failed") = (exitCode = 1)
    /\ (pc = "done") = (exitCode = 0)
    /\ \A i \in 1..Len(calls) : calls[i] = AllCalls[i]
    /\ \A i \in 1..(Len(calls) - 1) : Returned(calls[i])
    /\ pc = "failed" =>
          /\ failedAt = calls[Len(calls)]
          /\ Rejected(failedAt)
          /\ Outstanding = {}
    /\ pc = "done" =>
          /\ calls = AllCalls
          /\ \A site \in Sites : Returned(site)
          /\ failedAt = 0
          /\ Len(console) = 7
          /\ console[7] = Compare(SecondRead, newGreeting)
    /\ ~Terminated => (ENABLED ScriptStep) \/ Outstanding # {}

C6_Step ==
    Terminated => UNCHANGED <<pc, locals, console, calls, promises, failedAt, exitCode>>

ExpectedConsole ==
    << Log("Running deploy script for this contract on zkSync!"),
       Log("Bridging funds from Goerli to zkSync..."),
       Log("Bridge complete, deploying contract..."),
       Log("Greeter was deployed to " \o GreeterAddress \o " on zkSync!"),
       Log("The contract says: I'm a simple smart contract!!"),
       Log("Setting a new variable..."),
       Log("The contract says: I was deployed on zkSync using HardHat!!") >>

C7_ConsoleOutput ==
    /\ (pc = "done" /\ FirstRead = greeting /\ SecondRead = newGreeting) =>
          console = ExpectedConsole
    /\ Logged(LineBridgeComplete) =>
          /\ Returned(SiteDepositWait)
          /\ depositTx.state = "finalized"
    /\ (\E i \in 1..Len(console) : console[i] \notin
            {ExpectedConsole[j] : j \in {1, 2, 3}}) =>
          /\ Returned(SiteDeploy)
          /\ contract.deployed
          /\ console[4] = ExpectedConsole[4]

C7_Witness ==
    /\ pc = "done"
    /\ console = ExpectedConsole

\* C8: the deposit is initiated at most once, for 0.001 ETH, to the wallet's
\* own address, and deploy is not called before the wait() on the deposit
\* has reported it finalized.
MilliEtherInGwei == 1000000

C8_DepositOnceThenDeploy ==
    /\ Cardinality({i \in 1..Len(calls) : calls[i] = SiteDeposit}) <= 1
    /\ Issued(SiteDeposit) =>
          promises[SiteDeposit].args =
              <<WalletAddress(PRIVATE_KEY), ETH_ADDRESS, MilliEtherInGwei>>
    /\ depositTx.state # "none" =>
          /\ depositTx.to = WalletAddress(PRIVATE_KEY)
          /\ depositTx.amount = MilliEtherInGwei
    /\ Issued(SiteDeploy) =>
          /\ Returned(SiteDepositWait)
          /\ Before(SiteDepositWait, SiteDeploy)
          /\ depositTx.state = "finalized"
          /\ l2Balance >= MilliEtherInGwei

C8_Witness ==
    /\ Issued(SiteDeploy)
    /\ depositTx.state = "finalized"
    /\ deployTx.state = "pending"

\* C9: at most one call of the script is outstanding at any time, and a call
\* is issued only after every earlier one has returned.
C9_OneCallAtATime ==
    /\ Cardinality(Outstanding) <= 1
    /\ \A i \in 1..(Len(calls) - 1) : Returned(calls[i])
    /\ \A site \in Outstanding : site = calls[Len(calls)]

C9_Witness ==
    /\ Outstanding = {SiteSecondGreet}
    /\ Len(calls) = 8

C10_State ==
    /\ failedAt = SiteDeploy =>
          /\ depositTx.state = "finalized"
          /\ l2Balance >= depositAmount
    /\ failedAt = SiteSetGreeting =>
          /\ contract.deployed
          /\ setTx.state = "none"
          /\ contract.greeting = greeting
    /\ failedAt = SiteSetGreetingWait =>
          /\ contract.deployed
          /\ setTx.state \in {"pending", "mined"}
          /\ contract.greeting = IF setTx.state = "mined" THEN newGreeting ELSE greeting

C10_Step ==
    /\ pc' = "failed" => calls' = calls
    /\ pc = "failed" => promises' = promises
    /\ l2Balance' >= l2Balance
    /\ depositTx.state = "finalized" => depositTx' = depositTx
    /\ contract.deployed => contract'.deployed

====
